---- MODULE Spec2Model ----
(***************************************************************************)
(* Model of the epidemic grid of Population.hpp / Person.hpp.              *)
(*                                                                         *)
(* A Population owns an n*n matrix of Person, each holding a state string, *)
(* the rates _ri, _rr, _rm, _rv, _rvh, the day counter _t and the vaccine  *)
(* day _tv.  Update() advances one day.                                    *)
(*                                                                         *)
(* Numbers.  The rates and the draws are floats in the source.  They are   *)
(* modelled as integers in units of 1/Den: the value x stands for x/Den,   *)
(* so Den stands for 1.0.  Comparisons and sums are exact in the model.    *)
(* The rates are data members with default initialisers; the model lets    *)
(* them range over small sets so that the rule is exercised on both sides  *)
(* of every threshold.                                                     *)
(*                                                                         *)
(* Draws.  Update() draws a double from uniform_real_distribution(0.0,1.0) *)
(* and stores it in a float.  The narrowing rounds to nearest, and every   *)
(* double above 1 - 2^-25 rounds to 1.0f, so the stored seed ranges over   *)
(* [0, 1] with both ends included: Seeds is 0..Den.                        *)
(***************************************************************************)
EXTENDS Integers, Sequences, FiniteSets, TLC

\* Grid sides of the main specifications.  A 2*2 grid has every kind of
\* neighbourhood the rule distinguishes except the interior cell (a 3*3 grid
\* is the subject of SpecSync); a 3*3 grid under forceState has 4^9 matrices
\* per day, beyond what an exhaustive search covers.
GridSizes == 1..2

\* Largest day counter: Update is not taken once t has reached it.
MaxT == 2

\* Resolution of rates and draws: the integer x stands for x/Den.
Den == 2

\* The Population object: its matrix, its size, its rates and day counters.
VARIABLES m, n, ri, rr, rm, rv, rvh, t, tv

\* What surrounds the object: the fault the last failing call ended in
\* ("none" while no call has failed), and the locals of main: its step
\* counter, the rows written to state_counts.csv and the window.
VARIABLES fault, step, csv, window

vars == <<m, n, ri, rr, rm, rv, rvh, t, tv, fault, step, csv, window>>

params == <<n, ri, rr, rm, rv, rvh, tv>>

env == <<fault, step, csv, window>>

\* The four state strings a Person can hold.
State == {"susceptible", "infected", "recovered", "vaccinated"}

\* The values a stored float seed can take.
Seeds == 0..Den

\* Index pairs of a k*k matrix.
Cells(k) == (0..(k - 1)) \X (0..(k - 1))

\* The draws of one Update: one per cell, draw number i*n + j + 1 for cell (i, j).
SeedSeqs(k) == [1..(k * k) -> Seeds]

(***************************************************************************)
(* Person                                                                  *)
(***************************************************************************)
Person == "susceptible"

Person_set_sus == "susceptible"

Person_set_inf == "infected"

Person_set_rec_typo == "recoverd"

Person_set_rec == "recovered"

Person_set_vac == "vaccinated"

(***************************************************************************)
(* Population: constructor, accessors, mutators                            *)
(***************************************************************************)
\* Population(int k): _m(k, vector<Person>(k)), _n(k).
Population(k) == [c \in Cells(k) |-> Person]

\* Population(int n) of src/Population.hpp: the body declares a local
\* vector named _m and fills that one; the member _m keeps its default
\* construction, the empty vector.
Population_hpp(k) ==
    LET local == [c \in Cells(k) |-> Person] IN [c \in {} |-> Person]

getState(mm, i, j) == mm[<<i, j>>]

size == n

\* set_sus that refuses to take a cell out of vaccinated.
set_sus_guarded(i, j) ==
    /\ m[<<i, j>>] # "vaccinated"
    /\ m' = [m EXCEPT ![<<i, j>>] = Person_set_sus]
    /\ UNCHANGED <<params, t, env>>

set_sus(i, j) ==
    /\ m' = [m EXCEPT ![<<i, j>>] = Person_set_sus]
    /\ UNCHANGED <<params, t, env>>

set_inf(i, j) ==
    /\ m' = [m EXCEPT ![<<i, j>>] = Person_set_inf]
    /\ UNCHANGED <<params, t, env>>

set_rec(i, j) ==
    /\ m' = [m EXCEPT ![<<i, j>>] = Person_set_rec]
    /\ UNCHANGED <<params, t, env>>

set_vac(i, j) ==
    /\ m' = [m EXCEPT ![<<i, j>>] = Person_set_vac]
    /\ UNCHANGED <<params, t, env>>

\* getState, getPerson, set_sus, set_inf, set_rec or set_vac called with an
\* index pair that is not in the matrix.  All of them evaluate _m[i][j] with
\* vector::operator[], which checks nothing: the behaviour is undefined.  The
\* call can end the process (a read or write of unmapped memory), can go
\* unnoticed (a read of stray memory, a write outside the matrix), or can
\* write one of the four strings into a Person of another row (rows are
\* separate heap blocks, a column index past the row reaches the next ones).
OutOfRange(i, j) ==
    /\ <<i, j>> \notin DOMAIN m
    /\ fault # "crash"
    /\ \/ fault' = "crash" /\ m' = m
       \/ fault' = "undetected" /\ m' = m
       \/ /\ fault' = "undetected"
          /\ \E c \in DOMAIN m, s \in State : m' = [m EXCEPT ![c] = s]
    /\ UNCHANGED <<params, t, step, csv, window>>

\* Counts c; (all four members start at 0)
Counts == [susceptible |-> 0, infected |-> 0, recovered |-> 0, vaccinated |-> 0]

\* The body of the two loops of countStates(): the else-if chain on the
\* state string; a string that is none of the four is counted nowhere.
countStep(c, s) ==
    IF s = "susceptible" THEN [c EXCEPT !.susceptible = @ + 1]
    ELSE IF s = "infected" THEN [c EXCEPT !.infected = @ + 1]
    ELSE IF s = "recovered" THEN [c EXCEPT !.recovered = @ + 1]
    ELSE IF s = "vaccinated" THEN [c EXCEPT !.vaccinated = @ + 1]
    ELSE c

\* for i in 0..n-1, for j in 0..n-1, flattened: idx = i*n + j.
RECURSIVE countLoop(_, _, _, _)
countLoop(mm, k, idx, c) ==
    IF idx >= k * k THEN c
    ELSE countLoop(mm, k, idx + 1, countStep(c, mm[<<idx \div k, idx % k>>]))

\* countStates() with the inner loop stopping one column early.
countStates_short(mm, k) ==
    [susceptible |-> Cardinality({c \in Cells(k) : c[2] < k - 1 /\ mm[c] = "susceptible"}),
     infected    |-> Cardinality({c \in Cells(k) : c[2] < k - 1 /\ mm[c] = "infected"}),
     recovered   |-> Cardinality({c \in Cells(k) : c[2] < k - 1 /\ mm[c] = "recovered"}),
     vaccinated  |-> Cardinality({c \in Cells(k) : c[2] < k - 1 /\ mm[c] = "vaccinated"})]

\* countStates(): one pass over the matrix in row-major order.
countStates(mm, k) == countLoop(mm, k, 0, Counts)

(***************************************************************************)
(* Population::Update                                                      *)
(***************************************************************************)
\* fracVaccinated < 1.0f - _rvh, with fracVaccinated = c.vaccinated / total:
\* v/total < (Den - rvh)/Den, cross-multiplied (total > 0).
allowVaccination_always(mm, k) == TRUE

allowVaccination(mm, k) ==
    countStates(mm, k).vaccinated * Den < (Den - rvh) * (k * k)

\* The four guarded increments of sum: in-bounds up, left, down, right
\* neighbours that are infected in mOld.
sum_wrap(mOld, k, i, j) ==
    (IF mOld[<<(i + k - 1) % k, j>>] = "infected" THEN 1 ELSE 0)
  + (IF mOld[<<i, (j + k - 1) % k>>] = "infected" THEN 1 ELSE 0)
  + (IF mOld[<<(i + 1) % k, j>>] = "infected" THEN 1 ELSE 0)
  + (IF mOld[<<i, (j + 1) % k>>] = "infected" THEN 1 ELSE 0)

sum(mOld, k, i, j) ==
    (IF i - 1 >= 0 /\ mOld[<<i - 1, j>>] = "infected" THEN 1 ELSE 0)
  + (IF j - 1 >= 0 /\ mOld[<<i, j - 1>>] = "infected" THEN 1 ELSE 0)
  + (IF i + 1 < k /\ mOld[<<i + 1, j>>] = "infected" THEN 1 ELSE 0)
  + (IF j + 1 < k /\ mOld[<<i, j + 1>>] = "infected" THEN 1 ELSE 0)

\* The branch for a Person that is susceptible in mOld: the state written to
\* _m[i][j], or cur when nothing is written.
SusceptibleBranch_noday(cur, seed, chance_inf, tNow, allow) ==
    IF seed < chance_inf THEN Person_set_inf
    ELSE IF allow
         THEN (IF chance_inf < seed /\ seed < chance_inf + rv
               THEN Person_set_vac ELSE cur)
         ELSE cur

SusceptibleBranch_incl(cur, seed, chance_inf, tNow, allow) ==
    IF seed < chance_inf THEN Person_set_inf
    ELSE IF tNow >= tv /\ allow
         THEN (IF chance_inf <= seed /\ seed < chance_inf + rv
               THEN Person_set_vac ELSE cur)
         ELSE cur

\* The susceptible branch with seed <= chance_inf as its infection test.
SusceptibleBranch_le(cur, seed, chance_inf, tNow, allow) ==
    IF seed <= chance_inf THEN Person_set_inf
    ELSE IF tNow >= tv /\ allow
         THEN (IF chance_inf < seed /\ seed < chance_inf + rv
               THEN Person_set_vac ELSE cur)
         ELSE cur

SusceptibleBranch(cur, seed, chance_inf, tNow, allow) ==
    IF seed < chance_inf THEN Person_set_inf
    ELSE IF tNow >= tv /\ allow
         THEN (IF chance_inf < seed /\ seed < chance_inf + rv
               THEN Person_set_vac ELSE cur)
         ELSE cur

\* The branch for a Person that is infected in mOld.
InfectedBranch_le(cur, seed) ==
    IF seed <= rr THEN Person_set_rec ELSE cur

InfectedBranch(cur, seed) ==
    IF seed < rr THEN Person_set_rec ELSE cur

\* The branch for a Person that is recovered in mOld.
RecoveredBranch_incl(cur, seed, tNow, allow) ==
    IF seed < rm THEN Person_set_sus
    ELSE IF tNow > tv /\ allow
         THEN (IF rm <= seed /\ seed < rm + rv
               THEN Person_set_vac ELSE cur)
         ELSE cur

\* The recovered branch with the day test of the susceptible branch.
RecoveredBranch_ge(cur, seed, tNow, allow) ==
    IF seed < rm THEN Person_set_sus
    ELSE IF tNow >= tv /\ allow
         THEN (IF rm < seed /\ seed < rm + rv
               THEN Person_set_vac ELSE cur)
         ELSE cur

RecoveredBranch(cur, seed, tNow, allow) ==
    IF seed < rm THEN Person_set_sus
    ELSE IF tNow > tv /\ allow
         THEN (IF rm < seed /\ seed < rm + rv
               THEN Person_set_vac ELSE cur)
         ELSE cur

\* One iteration of the inner loop: the three consecutive ifs on
\* mOld[i][j].getState(), each writing to _m[i][j].
LoopBody_waning(mCur, mOld, k, i, j, seed, tNow, allow) ==
    LET old == mOld[<<i, j>>]
        a == IF old = "susceptible"
             THEN SusceptibleBranch(mCur[<<i, j>>], seed,
                                    sum(mOld, k, i, j) * ri, tNow, allow)
             ELSE mCur[<<i, j>>]
        b == IF old = "infected" THEN InfectedBranch(a, seed) ELSE a
        c == IF old = "recovered" \/ old = "vaccinated"
             THEN RecoveredBranch(b, seed, tNow, allow) ELSE b
    IN  [mCur EXCEPT ![<<i, j>>] = c]

\* The loop body with the second and third if testing the state just
\* written to _m[i][j] instead of mOld[i][j].
LoopBody_chain(mCur, mOld, k, i, j, seed, tNow, allow) ==
    LET old == mOld[<<i, j>>]
        a == IF old = "susceptible"
             THEN SusceptibleBranch(mCur[<<i, j>>], seed,
                                    sum(mOld, k, i, j) * ri, tNow, allow)
             ELSE mCur[<<i, j>>]
        b == IF a = "infected" THEN InfectedBranch(a, seed) ELSE a
        c == IF b = "recovered" THEN RecoveredBranch(b, seed, tNow, allow) ELSE b
    IN  [mCur EXCEPT ![<<i, j>>] = c]

LoopBody(mCur, mOld, k, i, j, seed, tNow, allow) ==
    LET old == mOld[<<i, j>>]
        a == IF old = "susceptible"
             THEN SusceptibleBranch(mCur[<<i, j>>], seed,
                                    sum(mOld, k, i, j) * ri, tNow, allow)
             ELSE mCur[<<i, j>>]
        b == IF old = "infected" THEN InfectedBranch(a, seed) ELSE a
        c == IF old = "recovered" THEN RecoveredBranch(b, seed, tNow, allow) ELSE b
    IN  [mCur EXCEPT ![<<i, j>>] = c]

\* The two nested for loops, row-major: step p handles cell (p \div k, p % k)
\* with draw number p + 1.
RECURSIVE Loop(_, _, _, _, _, _, _)
Loop(mCur, mOld, k, p, seeds, tNow, allow) ==
    IF p >= k * k THEN mCur
    ELSE Loop(LoopBody(mCur, mOld, k, p \div k, p % k, seeds[p + 1], tNow, allow),
              mOld, k, p + 1, seeds, tNow, allow)

\* The matrix Update() leaves, from matrix mm on day tOld with the given draws:
\* ++_t; allowVaccination from the counts of the matrix before the loop;
\* mOld = _m; the loop.
\* Update() with ++_t moved behind the loop: the rule sees the old day.
UpdateResult_preinc(mm, k, tOld, seeds) ==
    Loop(mm, mm, k, 0, seeds, tOld, allowVaccination(mm, k))

UpdateResult(mm, k, tOld, seeds) ==
    Loop(mm, mm, k, 0, seeds, tOld + 1, allowVaccination(mm, k))

\* One call of Update(): the draws are whatever the fresh generator yields.
UpdateCall_percell ==
    /\ \E seeds \in SeedSeqs(n) : m' = UpdateResult(m, n, t, seeds)
    /\ t' = t + n * n
    /\ UNCHANGED params

UpdateCall ==
    /\ \E seeds \in SeedSeqs(n) : m' = UpdateResult(m, n, t, seeds)
    /\ t' = t + 1
    /\ UNCHANGED params

\* Update() called on the object on its own, while the day counter is
\* within MaxT.
\* Update that also switches the vaccination rate off.
Update_retune ==
    /\ t < MaxT
    /\ \E seeds \in SeedSeqs(n) : m' = UpdateResult(m, n, t, seeds)
    /\ t' = t + 1
    /\ rv' = 0
    /\ UNCHANGED <<n, ri, rr, rm, rvh, tv, env>>

Update ==
    /\ t < MaxT
    /\ UpdateCall
    /\ UNCHANGED env

(***************************************************************************)
(* Specifications                                                          *)
(***************************************************************************)
\* Values the rate members are given.  The source fixes them by default
\* member initialisers (_ri = 0.20, _rr = 1/20, _rm = 1/200, _rv = 1/1000,
\* _rvh = 0.2, _tv = 200); the sets below keep their order (rm < rr, rv wide
\* enough to hold a draw strictly inside the vaccination interval) and bring
\* the vaccine day within MaxT.  ri = Den is the rate 1.0.
RiSet == {1, Den}

RrSet == {1}

RmSet == {1}

RvSet == {2}

RvhSet == {1}

TvSet == {1, 2}

InitParams ==
    /\ ri \in RiSet
    /\ rr \in RrSet
    /\ rm \in RmSet
    /\ rv \in RvSet
    /\ rvh \in RvhSet
    /\ tv \in TvSet

\* No call has failed and main is not running.
NoEnv ==
    /\ fault = "none"
    /\ step = 0
    /\ csv = <<>>
    /\ window = "none"

\* The state after Population pop(k).
Init ==
    /\ n \in GridSizes
    /\ m = Population(n)
    /\ t = 0
    /\ InitParams
    /\ NoEnv

Next ==
    \/ \E i \in 0..(n - 1), j \in 0..(n - 1) : set_sus(i, j)
    \/ \E i \in 0..(n - 1), j \in 0..(n - 1) : set_inf(i, j)
    \/ \E i \in 0..(n - 1), j \in 0..(n - 1) : set_rec(i, j)
    \/ \E i \in 0..(n - 1), j \in 0..(n - 1) : set_vac(i, j)
    \/ Update

Spec == Init /\ [][Next]_vars

\* The loop of Update() in src/Population.hpp, followed for its calls of
\* dis(gen): the call sits inside each of the three branches, so a cell whose
\* state in mOld is susceptible, infected or recovered takes the next draw
\* of the generator (number g, counted from 0) and any other cell takes
\* none.  The result maps every cell that drew to its draw number.
RECURSIVE drawLoop_hpp(_, _, _, _, _)
drawLoop_hpp(mOld, k, p, g, acc) ==
    IF p >= k * k THEN acc
    ELSE LET c == <<p \div k, p % k>>
             draws == mOld[c] \in {"susceptible", "infected", "recovered"}
         IN  drawLoop_hpp(mOld, k, p + 1,
                          IF draws THEN g + 1 ELSE g,
                          IF draws THEN acc @@ (c :> g) ELSE acc)

\* What the reads mOld[i][j].getState() can return when mOld has no such
\* element: any of the state strings or some other bytes.
StrayReads(k) == [Cells(k) -> State \cup {"stray"}]

\* The draw assignments one call of that Update() can make on matrix mm.
\* With mm empty every read of mOld[i][j] is undefined: the call ends at the
\* first read, before any draw, or goes on with whatever the reads return.
draws_hpp(mm, k) ==
    IF DOMAIN mm = Cells(k)
    THEN {drawLoop_hpp(mm, k, 0, 0, <<>>)}
    ELSE {<<>>} \cup {drawLoop_hpp(g, k, 0, 0, <<>>) : g \in StrayReads(k)}

\* The class of src/Population.hpp after Population pop(k): it has the
\* members _m, _n, _ri, _rr, _rm only; the other variables are unused.
InitHpp ==
    /\ n \in GridSizes
    /\ m = Population_hpp(n)
    /\ ri \in RiSet
    /\ rr \in 0..Den
    /\ rm \in 0..Den
    /\ rv = 0 /\ rvh = 0 /\ tv = 0 /\ t = 0
    /\ NoEnv

\* Any accessor or mutator of that class on a cell of the n*n grid, and its
\* Update(), which reads mOld[0][0] first: each indexes the empty member.
NextHpp == \E i \in 0..(n - 1), j \in 0..(n - 1) : OutOfRange(i, j)

SpecHpp == InitHpp /\ [][NextHpp]_vars

\* Arguments Population(int n) is called with.
CtorArgs == (-1)..2

\* The state after Population pop(k) for any k.  vector's constructor takes
\* the count as size_t: a negative k becomes a count above max_size() and
\* the constructor throws std::length_error, no object exists (n then holds
\* the argument); k = 0 builds an object with an empty matrix.
InitCtor ==
    /\ n \in CtorArgs
    /\ m = IF n < 0 THEN [c \in {} |-> Person] ELSE Population(n)
    /\ t = 0
    /\ InitParams
    /\ fault = IF n < 0 THEN "length_error" ELSE "none"
    /\ step = 0
    /\ csv = <<>>
    /\ window = "none"

\* Calls on the object, when there is one.
NextCtor == fault = "none" /\ Next

SpecCtor == InitCtor /\ [][NextCtor]_vars

\* Calls with any index pair, in range or out of range.
NextBounds ==
    \/ fault # "crash" /\ Next
    \/ \E i \in (-1)..n, j \in (-1)..n : OutOfRange(i, j)

SpecBounds == Init /\ [][NextBounds]_vars

(***************************************************************************)
(* The driver: main() of src/main.cpp and of src/unnamed/part_000          *)
(***************************************************************************)
\* const int maxSteps (1000 in the source).
maxSteps == 2

\* const int gridSize (30 and 100 in the source).
gridSize == 2

\* The cells infected before the loop: main.cpp infects three cells in an
\* L, (15,15), (15,16), (16,15); part_000 infects each cell of the middle
\* block with probability 0.75, any subset of it.
SeedChoices == {{<<0, 0>>, <<0, 1>>, <<1, 0>>}} \cup SUBSET {<<1, 0>>, <<1, 1>>}

\* csv << step << ',' << c.susceptible << ',' << ... << '\n' with the
\* infected and recovered columns exchanged.
logRow_swapped(stp, c) ==
    [day |-> stp, susceptible |-> c.susceptible, infected |-> c.recovered,
     recovered |-> c.infected, vaccinated |-> c.vaccinated]

\* csv << step << ',' << c.susceptible << ',' << ... << '\n'
logRow(stp, c) ==
    [day |-> stp, susceptible |-> c.susceptible, infected |-> c.infected,
     recovered |-> c.recovered, vaccinated |-> c.vaccinated]

\* main() up to the loop: the grid, the initial infections, the csv file
\* with the day-0 row, the window, step = 0.  If the file cannot be opened
\* main returns 1 before anything is logged or shown.
InitMain ==
    /\ n = gridSize
    /\ \E inf \in SeedChoices :
          m = [c \in Cells(gridSize) |->
                  IF c \in inf THEN Person_set_inf ELSE Person]
    /\ t = 0
    /\ InitParams
    /\ step = 0
    /\ \/ /\ fault = "none"
          /\ csv = <<logRow(0, countStates(m, n))>>
          /\ window = "open"
       \/ /\ fault = "csv_open"
          /\ csv = <<>>
          /\ window = "none"

\* The advance of the loop with step <= maxSteps as its condition.
MainAdvance_le ==
    /\ window = "open"
    /\ step <= maxSteps
    /\ UpdateCall
    /\ step' = step + 1
    /\ csv' = Append(csv, logRow(step', countStates(m', n)))
    /\ UNCHANGED <<fault, window>>

\* A loop iteration whose if (step < maxSteps && clock elapsed) is taken:
\* pop.Update(); ++step; then the row of the counts.  (An iteration that
\* does not take it only draws: a stuttering step.)
MainAdvance ==
    /\ window = "open"
    /\ step < maxSteps
    /\ UpdateCall
    /\ step' = step + 1
    /\ csv' = Append(csv, logRow(step', countStates(m', n)))
    /\ UNCHANGED <<fault, window>>

\* A Closed event or the Escape key: window.close(), the loop ends.
MainClose ==
    /\ window = "open"
    /\ window' = "closed"
    /\ UNCHANGED <<m, params, t, fault, step, csv>>

NextMain == MainAdvance \/ MainClose

SpecMain == InitMain /\ [][NextMain]_vars

\* forceState to susceptible, infected or recovered only, and Update.
NextNoVac ==
    \/ \E i \in 0..(n - 1), j \in 0..(n - 1) : set_sus(i, j)
    \/ \E i \in 0..(n - 1), j \in 0..(n - 1) : set_inf(i, j)
    \/ \E i \in 0..(n - 1), j \in 0..(n - 1) : set_rec(i, j)
    \/ Update

SpecNoVac == Init /\ [][NextNoVac]_vars

\* Population pop(3); pop.set_inf(1, 1); with _ri = 1.0 and the vaccine day
\* after the first Update.
InitSync ==
    /\ n = 3
    /\ m = [Population(3) EXCEPT ![<<1, 1>>] = Person_set_inf]
    /\ t = 0
    /\ ri = Den
    /\ rr \in 0..Den
    /\ rm \in RmSet
    /\ rv \in RvSet
    /\ rvh \in 0..1
    /\ tv = 2
    /\ NoEnv

\* One Update of that grid.
NextSync == t = 0 /\ Update

SpecSync == InitSync /\ [][NextSync]_vars

(***************************************************************************)
(* Vocabulary of the properties, written from the rule as it is stated,    *)
(* not from the operators above.                                           *)
(***************************************************************************)
\* Number of cells of the current matrix in state s.
NumIn(s) == Cardinality({c \in Cells(n) : m[c] = s})

\* Orthogonal in-bounds neighbours of cell c.
Orthogonal(c) ==
    {d \in Cells(n) :
        \/ d[1] = c[1] /\ (d[2] = c[2] + 1 \/ d[2] = c[2] - 1)
        \/ d[2] = c[2] /\ (d[1] = c[1] + 1 \/ d[1] = c[1] - 1)}

\* k of cell c: its orthogonal in-bounds neighbours that are infected now.
InfectedNeighbours(c) == Cardinality({d \in Orthogonal(c) : m[d] = "infected"})

\* Draw number of cell c in row-major order.
DrawOf(seeds, c) == seeds[c[1] * n + c[2] + 1]

\* The vaccinated fraction of the current matrix is below 1 - rvh.
BelowCeiling == NumIn("vaccinated") * Den < (Den - rvh) * (n * n)

\* The matrix the next Update leaves for the given draws.
After(seeds) == UpdateResult(m, n, t, seeds)

\* The step rewrites one cell of the matrix to one of the four states and
\* nothing else of the matrix.
ForceStep == \E c \in Cells(n), s \in State : m' = [m EXCEPT ![c] = s]

(***************************************************************************)
(* Properties                                                              *)
(***************************************************************************)
\* C1 Conservation: every cell holds one of the four states and the four
\* counts of countStates() are non-negative and sum to n*n, after any
\* sequence of set_sus/set_inf/set_rec/set_vac and Update calls.
C1_Conservation ==
    LET c == countStates(m, n) IN
    /\ \A x \in Cells(n) : getState(m, x[1], x[2]) \in State
    /\ c.susceptible >= 0 /\ c.infected >= 0
    /\ c.recovered >= 0 /\ c.vaccinated >= 0
    /\ c.susceptible + c.infected + c.recovered + c.vaccinated = n * n

C1_Witness ==
    /\ t >= 2
    /\ NumIn("recovered") >= 1
    /\ NumIn("infected") >= 1
    /\ NumIn("vaccinated") >= 1

\* C2 Absorption: an Update never takes a cell out of vaccinated, whatever
\* the draws and whatever its neighbours are.
C2_Absorption ==
    [][t' = t + 1 =>
        \A c \in Cells(n) : m[c] = "vaccinated" => m'[c] = "vaccinated"]_vars

C2_Witness ==
    /\ t >= 2
    /\ NumIn("vaccinated") >= 1
    /\ NumIn("infected") >= 1

C5_DayGate == t < tv => NumIn("vaccinated") = 0

C5_Witness ==
    /\ t >= 1
    /\ t < tv
    /\ NumIn("susceptible") >= 1
    /\ NumIn("recovered") >= 1

\* C6 Vaccination gating by hesitancy: an Update that starts with the
\* vaccinated fraction not below 1 - rvh vaccinates no cell.
C6_HesitancyGate ==
    [][(t' = t + 1 /\ ~BelowCeiling) =>
        \A c \in Cells(n) : m'[c] = "vaccinated" => m[c] = "vaccinated"]_vars

C6_Witness ==
    /\ ~BelowCeiling
    /\ t >= tv + 1
    /\ NumIn("susceptible") >= 1

\* C7 Hesitancy ceiling: without set_vac the vaccinated fraction never
\* exceeds 1 - rvh.
C7_Original == NumIn("vaccinated") * Den <= (Den - rvh) * (n * n)

\* C8 Susceptible vaccination threshold, as stated: lower bound inclusive.
C8_Original ==
    LET k == [c \in Cells(n) |-> InfectedNeighbours(c)]
        allowed == BelowCeiling
    IN
    \A seeds \in SeedSeqs(n) :
        LET new == After(seeds) IN
        \A c \in Cells(n) :
            LET p_inf == k[c] * ri
                seed == DrawOf(seeds, c)
            IN  (m[c] = "susceptible" /\ seed >= p_inf) =>
                    new[c] =
                        IF t + 1 >= tv /\ allowed
                           /\ p_inf <= seed /\ seed < p_inf + rv
                        THEN "vaccinated" ELSE "susceptible"

\* C8 amended: a susceptible cell whose draw is not below p_inf becomes
\* vaccinated exactly when the day of the step is at least tv, vaccination is
\* allowed and p_inf < seed < p_inf + rv (lower bound exclusive: seed = p_inf
\* stays susceptible); otherwise it stays susceptible.
C8_Amended ==
    LET k == [c \in Cells(n) |-> InfectedNeighbours(c)]
        allowed == BelowCeiling
    IN
    \A seeds \in SeedSeqs(n) :
        LET new == After(seeds) IN
        \A c \in Cells(n) :
            LET p_inf == k[c] * ri
                seed == DrawOf(seeds, c)
            IN  (m[c] = "susceptible" /\ seed >= p_inf) =>
                    new[c] =
                        IF t + 1 >= tv /\ allowed
                           /\ p_inf < seed /\ seed < p_inf + rv
                        THEN "vaccinated" ELSE "susceptible"

C8_Witness ==
    /\ t >= tv
    /\ BelowCeiling
    /\ NumIn("vaccinated") >= 1
    /\ \E c \in Cells(n) : m[c] = "susceptible" /\ InfectedNeighbours(c) >= 1

\* C9 Recovered rule, as stated: lower bound inclusive.
C9_Original ==
    LET allowed == BelowCeiling IN
    \A seeds \in SeedSeqs(n) :
        LET new == After(seeds) IN
        \A c \in Cells(n) :
            LET seed == DrawOf(seeds, c) IN
            m[c] = "recovered" =>
                new[c] =
                    IF seed < rm THEN "susceptible"
                    ELSE IF t + 1 > tv /\ allowed
                            /\ rm <= seed /\ seed < rm + rv
                         THEN "vaccinated" ELSE "recovered"

\* C9 amended: a recovered cell becomes susceptible if seed < rm; otherwise
\* vaccinated exactly when the day of the step is above tv, vaccination is
\* allowed and rm < seed < rm + rv (lower bound exclusive: seed = rm stays
\* recovered); otherwise it stays recovered, whatever its neighbours are.
C9_Amended ==
    LET allowed == BelowCeiling IN
    \A seeds \in SeedSeqs(n) :
        LET new == After(seeds) IN
        \A c \in Cells(n) :
            LET seed == DrawOf(seeds, c) IN
            m[c] = "recovered" =>
                new[c] =
                    IF seed < rm THEN "susceptible"
                    ELSE IF t + 1 > tv /\ allowed
                            /\ rm < seed /\ seed < rm + rv
                         THEN "vaccinated" ELSE "recovered"

C9_Witness ==
    /\ t >= tv
    /\ BelowCeiling
    /\ NumIn("vaccinated") >= 1
    /\ \E c \in Cells(n) : m[c] = "recovered" /\ InfectedNeighbours(c) >= 1

\* C10 Infected rule: an infected cell becomes recovered if seed < rr and
\* stays infected otherwise, whatever its neighbours, the day and the
\* vaccination gate are.
C10_InfectedRule ==
    \A seeds \in SeedSeqs(n) :
        LET new == After(seeds) IN
        \A c \in Cells(n) :
            m[c] = "infected" =>
                new[c] =
                    IF DrawOf(seeds, c) < rr THEN "recovered" ELSE "infected"

C10_Witness ==
    /\ t >= tv
    /\ BelowCeiling
    /\ NumIn("recovered") >= 1
    /\ \E c \in Cells(n) : m[c] = "infected" /\ InfectedNeighbours(c) >= 1

\* C11 Day counter: t is 0 after construction; every step either is an
\* Update, which adds exactly 1 to t, or rewrites one cell and leaves t as it
\* is; t never decreases.
C11_DayCounter ==
    /\ t = 0
    /\ [][(t' = t + 1) \/ (t' = t /\ ForceStep)]_vars

C11_Witness ==
    /\ t = MaxT
    /\ n = 2
    /\ NumIn("infected") = 4

\* What the claim says a forceState of cell c to state s does.
Forced(c, s) ==
    /\ m' = [m EXCEPT ![c] = s]
    /\ t' = t
    /\ UNCHANGED params

\* C16 forceState frame: set_sus, set_inf, set_rec and set_vac on a cell of
\* the grid are possible in every state, whatever the cell holds (vaccinated
\* included) and whatever t is; the step puts that cell in the given state,
\* changes no other cell, and leaves t and all parameters unchanged; the
\* result does not depend on any draw.
C16_ForceFrame ==
    /\ [](\A c \in Cells(n) :
            /\ ENABLED set_sus(c[1], c[2])
            /\ ENABLED set_inf(c[1], c[2])
            /\ ENABLED set_rec(c[1], c[2])
            /\ ENABLED set_vac(c[1], c[2]))
    /\ [][\A c \in Cells(n) :
            /\ set_sus(c[1], c[2]) => Forced(c, "susceptible")
            /\ set_inf(c[1], c[2]) => Forced(c, "infected")
            /\ set_rec(c[1], c[2]) => Forced(c, "recovered")
            /\ set_vac(c[1], c[2]) => Forced(c, "vaccinated")]_vars

\* A vaccinated cell before the vaccination day, after an Update: only
\* set_vac can have put it there.
C16_Witness ==
    /\ t = 1
    /\ tv = 2
    /\ n = 2
    /\ NumIn("vaccinated") = 1
    /\ NumIn("susceptible") = 3

\* C17 Read-only queries: countStates() returns four counts, each the
\* number of cells in that state, and two evaluations in the same state
\* agree; getState(i, j) is the cell's state and size() is n.  The three
\* are const member functions, operators over the state here: evaluating
\* them is no step and changes no variable.
C17_ReadOnly ==
    LET c1 == countStates(m, n)
        c2 == countStates(m, n) IN
    /\ c1 = c2
    /\ c1.susceptible = NumIn("susceptible")
    /\ c1.infected = NumIn("infected")
    /\ c1.recovered = NumIn("recovered")
    /\ c1.vaccinated = NumIn("vaccinated")
    /\ \A c \in Cells(n) : getState(m, c[1], c[2]) = m[c]
    /\ size = n

C17_Witness ==
    /\ n = 2
    /\ t = 1
    /\ getState(m, 0, 1) = "infected"
    /\ getState(m, 1, 1) = "vaccinated"
    /\ countStates(m, n).recovered = 2

\* C18 Immutable configuration: no step changes n, ri, rr, rm, rv, rvh or
\* tv, and an Update changes nothing but the cells and t.
C18_Immutable ==
    [][/\ n' = n /\ ri' = ri /\ rr' = rr /\ rm' = rm
       /\ rv' = rv /\ rvh' = rvh /\ tv' = tv
       /\ (t' = t + 1 => UNCHANGED env)]_vars

C18_Witness ==
    /\ t = MaxT
    /\ n = 2
    /\ rv = 2
    /\ tv = 1
    /\ NumIn("recovered") = 4

\* C19 Logging protocol: when the file is open the log holds step + 1 rows,
\* row k carries day k - 1 (0, 1, 2, ... without gap or duplicate), the
\* last row's day is the grid's t and its four counts are the counts of the
\* grid; a row is appended exactly when an Update runs, one row per Update,
\* and rows already written never change.
C19_Logging ==
    /\ [](fault = "none" =>
            /\ Len(csv) = step + 1
            /\ \A k \in 1..Len(csv) : csv[k].day = k - 1
            /\ csv[Len(csv)].day = t
            /\ csv[Len(csv)].susceptible = NumIn("susceptible")
            /\ csv[Len(csv)].infected = NumIn("infected")
            /\ csv[Len(csv)].recovered = NumIn("recovered")
            /\ csv[Len(csv)].vaccinated = NumIn("vaccinated"))
    /\ [][/\ (t' # t) = (csv' # csv)
          /\ csv' # csv =>
                /\ t' = t + 1
                /\ Len(csv') = Len(csv) + 1
                /\ SubSeq(csv', 1, Len(csv)) = csv]_vars

C19_Witness ==
    /\ step = maxSteps
    /\ Len(csv) = maxSteps + 1
    /\ csv[1].infected = 3
    /\ csv[2].infected # csv[2].recovered
    /\ csv[Len(csv)].recovered >= 1

\* C20 Driver bound: the infections are seeded while t is 0, the cells
\* change only by an Update, at most maxSteps Updates run, and once step is
\* maxSteps the grid and t stay as they are while the window is open or
\* closed.
C20_DriverBound ==
    /\ (t = 0 /\ step = 0 /\ NumIn("susceptible") + NumIn("infected") = n * n)
    /\ [](t <= maxSteps /\ step <= maxSteps)
    /\ [][/\ m' # m => (t' = t + 1 /\ step' = step + 1)
          /\ step = maxSteps => (m' = m /\ t' = t /\ step' = step)]_vars

C20_Witness ==
    /\ step = maxSteps
    /\ t = maxSteps
    /\ window = "closed"
    /\ NumIn("infected") >= 1

\* C22 Asymmetric day threshold: in the Update whose rule sees day tv (the
\* one that starts with t + 1 = tv) a susceptible cell with vaccination
\* allowed and its draw inside its vaccination interval becomes vaccinated,
\* and no recovered cell becomes vaccinated, whatever its draw; a recovered
\* cell becomes vaccinated only in an Update whose rule sees a day above tv.
C22_AsymmetricDay ==
    /\ [](t + 1 = tv =>
            LET k == [c \in Cells(n) |-> InfectedNeighbours(c)]
                allowed == BelowCeiling
            IN
            \A seeds \in SeedSeqs(n) :
                LET new == After(seeds) IN
                \A c \in Cells(n) :
                    LET p_inf == k[c] * ri
                        seed == DrawOf(seeds, c)
                    IN  /\ (m[c] = "susceptible" /\ allowed
                            /\ p_inf < seed /\ seed < p_inf + rv) =>
                                new[c] = "vaccinated"
                        /\ m[c] = "recovered" => new[c] # "vaccinated")
    /\ [][t' = t + 1 =>
            \A c \in Cells(n) :
                (m[c] = "recovered" /\ m'[c] = "vaccinated") => t' > tv]_vars

C22_Witness ==
    /\ t = 1
    /\ tv = 2
    /\ n = 2
    /\ BelowCeiling
    /\ NumIn("recovered") >= 1
    /\ \E c \in Cells(n) : m[c] = "susceptible" /\ InfectedNeighbours(c) = 0

\* C23 Order of increment and rule: in the driver, where step counts the
\* Update calls made on the fresh grid, call number k leaves t = k; a
\* susceptible cell becomes vaccinated in no call before number tv and a
\* recovered cell in no call before number tv + 1; and these calls are the
\* earliest: in call number tv a susceptible cell with vaccination allowed
\* and a draw value inside its interval can become vaccinated, in call
\* number tv + 1 a recovered cell likewise.
C23_IncrementFirst ==
    /\ [](LET k == [c \in Cells(n) |-> InfectedNeighbours(c)]
              allowed == BelowCeiling
          IN
          /\ step + 1 = tv =>
                \A c \in Cells(n) :
                    (/\ m[c] = "susceptible"
                     /\ allowed
                     /\ \E s \in Seeds : k[c] * ri < s /\ s < k[c] * ri + rv) =>
                        \E seeds \in SeedSeqs(n) : After(seeds)[c] = "vaccinated"
          /\ step + 1 = tv + 1 =>
                \A c \in Cells(n) :
                    (/\ m[c] = "recovered"
                     /\ allowed
                     /\ \E s \in Seeds : rm < s /\ s < rm + rv) =>
                        \E seeds \in SeedSeqs(n) : After(seeds)[c] = "vaccinated")
    /\ [][step' = step + 1 =>
            /\ t' = step'
            /\ \A c \in Cells(n) :
                  /\ (m[c] = "susceptible" /\ m'[c] = "vaccinated") => step' >= tv
                  /\ (m[c] = "recovered" /\ m'[c] = "vaccinated") =>
                        step' >= tv + 1]_vars

\* A cell vaccinated in call 2 = tv + 1 that can only have been recovered:
\* after call 1 no cell was susceptible and none vaccinated.
C23_Witness ==
    /\ step = 2
    /\ tv = 1
    /\ csv[2].susceptible = 0
    /\ csv[2].vaccinated = 0
    /\ csv[3].vaccinated >= 1

\* The (old, new) pairs of one cell across one Update that the claim allows.
AllowedTransitions ==
    {<<"susceptible", "susceptible">>, <<"susceptible", "infected">>,
     <<"susceptible", "vaccinated">>,
     <<"infected", "infected">>, <<"infected", "recovered">>,
     <<"recovered", "recovered">>, <<"recovered", "susceptible">>,
     <<"recovered", "vaccinated">>,
     <<"vaccinated", "vaccinated">>}

\* C24 Allowed one-step transitions: across one Update every cell's pair of
\* old and new state is one of the nine allowed pairs; a cell passes through
\* one branch only, so no susceptible cell ends recovered, no infected cell
\* ends susceptible or vaccinated, no recovered cell ends infected.
C24_Transitions ==
    [][t' = t + 1 =>
        \A c \in Cells(n) : <<m[c], m'[c]>> \in AllowedTransitions]_vars

C24_Witness ==
    /\ t = 1
    /\ tv = 1
    /\ n = 2
    /\ NumIn("susceptible") = 1
    /\ NumIn("infected") = 1
    /\ NumIn("recovered") = 1
    /\ NumIn("vaccinated") = 1

\* C25 Extinction is permanent: an Update that starts with no infected cell
\* ends with no infected cell, whatever the draws; so from a state without
\* infected cells no sequence of Updates brings one back.
C25_Extinction ==
    [][(t' = t + 1 /\ \A c \in Cells(n) : m[c] # "infected") =>
        \A c \in Cells(n) : m'[c] # "infected"]_vars

C25_Witness ==
    /\ t = MaxT
    /\ n = 2
    /\ NumIn("infected") = 0
    /\ NumIn("recovered") = 1
    /\ NumIn("susceptible") = 3

\* C13 Construction: after construct(n) with n > 0 the grid holds exactly
\* n*n cells, every cell (i, j) with 0 <= i, j < n is readable and
\* susceptible, size() is n and t is 0.  (In SpecHpp the matrix never
\* changes, so every state without fault is the state after construction.)
C13_Original ==
    (fault = "none" /\ n > 0) =>
        /\ DOMAIN m = Cells(n)
        /\ \A c \in Cells(n) : getState(m, c[1], c[2]) = "susceptible"
        /\ size = n
        /\ t = 0

\* C14 Construction error: construct(n) with n <= 0 fails with an error
\* and leaves no object, so no Update runs on a grid of non-positive size.
C14_Original == n <= 0 => (fault = "length_error" /\ t = 0)

\* C15 Out-of-bounds access: a call with i or j outside 0..n-1 ends in an
\* out-of-bounds error and leaves every cell and t unchanged.
C15_Original ==
    [][(\E i \in (-1)..n, j \in (-1)..n : OutOfRange(i, j)) =>
        (fault' = "out_of_range" /\ m' = m /\ t' = t)]_vars

\* C21 Draw consumption: an Update consumes exactly one draw per cell, n*n
\* in all, and cell (i, j) uses draw number i*n + j, whatever its state.
C21_Original ==
    \A d \in draws_hpp(m, n) :
        /\ DOMAIN d = Cells(n)
        /\ \A c \in Cells(n) : d[c] = c[1] * n + c[2]

====
